---- MODULE Spec2Model ----
(***************************************************************************)
(* Model of cdc_stats/input_data.py: header cleaning, type detection and   *)
(* typed rows of a UrlCSV, union_fields, merge_typed_dicts and             *)
(* pivot_typed_dict.                                                       *)
(*                                                                         *)
(* A Python str is a tuple of one-character strings (<<"a", "b">> is       *)
(* "ab"), so that the character-level functions (re.sub, str.replace,      *)
(* int, date.fromisoformat, the "in" substring test) are computed.         *)
(* A dict is a function; a list is a sequence.                             *)
(***************************************************************************)
EXTENDS Integers, Sequences, FiniteSets, TLC

VARIABLES
    pc,            \* the call under study: "start", "done", or the exception raised
    headings,      \* _clean_headings: the raw heading list
    fields,        \* _clean_headings: the returned list
    field_names,   \* UrlCSV.field_names
    data,          \* UrlCSV.data: the raw rows, cells aligned with field_names
    field_types,   \* UrlCSV.field_types
    typed_dict,    \* UrlCSV.typed_dict
    args,          \* the UrlCSV arguments of union_fields / merge_typed_dicts
    union_result,  \* value returned by union_fields
    csv_result,    \* value returned by merge_typed_dicts
    td,            \* argument of pivot_typed_dict
    result         \* value returned by pivot_typed_dict

vars == <<pc, headings, fields, field_names, data, field_types, typed_dict,
          args, union_result, csv_result, td, result>>

(***************************************************************************)
(* Bounds of the explored inputs.                                          *)
(***************************************************************************)
MaxHeadTokens == 6

MaxRows == 2

MaxUnionArgs == 3

MaxUnionFields == 2

MaxMergeArgs == 2

MaxMergeRows == 2

MaxPivotRows == 3

(***************************************************************************)
(* Characters and generic string functions.                                *)
(***************************************************************************)
Upper == {"A", "B", "C", "D", "E", "F", "G", "H", "I", "J", "K", "L", "M",
          "N", "O", "P", "Q", "R", "S", "T", "U", "V", "W", "X", "Y", "Z"}

Digit == {"0", "1", "2", "3", "4", "5", "6", "7", "8", "9"}

SeqsUpTo(S, n) == UNION { [1..k -> S] : k \in 0..n }

\* s[from..] (Python s[from-1:])
Drop(s, n) == SubSeq(s, n + 1, Len(s))

StartsWith(s, p) == Len(s) >= Len(p) /\ SubSeq(s, 1, Len(p)) = p

\* Python "sub in s"
Contains(s, sub) == \E i \in 0..(Len(s) - Len(sub)) : SubSeq(s, i + 1, i + Len(sub)) = sub

\* Python s.replace(old, new): leftmost non-overlapping occurrences, one pass
RECURSIVE Replace(_, _, _)
Replace(s, old, new) ==
    IF Len(s) < Len(old) THEN s
    ELSE IF StartsWith(s, old) THEN new \o Replace(Drop(s, Len(old)), old, new)
    ELSE <<s[1]>> \o Replace(Tail(s), old, new)

(***************************************************************************)
(* UrlCSV._clean_headings                                                  *)
(***************************************************************************)
\* [A-Z][0-9][0-9] at the start of s
Code3(s) == Len(s) >= 3 /\ s[1] \in Upper /\ s[2] \in Digit /\ s[3] \in Digit

\* del_regex1 = [A-Z][0-9][0-9]-[A-Z][0-9][0-9] matches at the start of s
MatchRegex1(s) == Len(s) >= 7 /\ Code3(s) /\ s[4] = "-" /\ Code3(Drop(s, 4))

\* length of the (greedy) match of del_regex2 = [A-Z][0-9][0-9][0-9]? at the
\* start of s, 0 if none
MatchRegex2(s) ==
    IF ~Code3(s) THEN 0
    ELSE IF Len(s) >= 4 /\ s[4] \in Digit THEN 4 ELSE 3

\* del_regex1.sub("", s)
RECURSIVE del_regex1(_)
del_regex1(s) ==
    IF s = <<>> THEN s
    ELSE IF MatchRegex1(s) THEN del_regex1(Drop(s, 7))
    ELSE <<s[1]>> \o del_regex1(Tail(s))

\* del_regex2.sub("", s)
RECURSIVE del_regex2(_)
del_regex2(s) ==
    IF s = <<>> THEN s
    ELSE IF MatchRegex2(s) > 0 THEN del_regex2(Drop(s, MatchRegex2(s)))
    ELSE <<s[1]>> \o del_regex2(Tail(s))

\* while field.endswith('_'): field = field[:-1]
RECURSIVE StripTrailing(_)
StripTrailing(s) ==
    IF s # <<>> /\ s[Len(s)] = "_" THEN StripTrailing(SubSeq(s, 1, Len(s) - 1))
    ELSE s

\* the two collapsing replaces of lines 99-100, each applied once
Collapse(s) == Replace(Replace(s, <<"_", "_", "_">>, <<"_">>), <<"_", "_">>, <<"_">>)

\* the five character replaces of lines 94-98
Separators(s) ==
    Replace(Replace(Replace(Replace(Replace(s,
        <<"(">>, <<"_">>), <<")">>, <<"_">>), <<",">>, <<"_">>), <<"-">>, <<"_">>),
        <<" ">>, <<"_">>)

\* body of the loop over the headings
clean_name(name) == StripTrailing(Collapse(Separators(del_regex2(del_regex1(name)))))

clean_headings(hs) == [i \in 1..Len(hs) |-> clean_name(hs[i])]

(***************************************************************************)
(* Typed values: int, datetime.date, str and None.                         *)
(***************************************************************************)
IntV(n) == [tag |-> "int", i |-> n, s |-> <<>>]

\* a date is kept as the number yyyymmdd
DateV(y, m, d) == [tag |-> "date", i |-> y * 10000 + m * 100 + d, s |-> <<>>]

StrV(str) == [tag |-> "str", i |-> 0, s |-> str]

NoneV == [tag |-> "None", i |-> 0, s |-> <<>>]

(***************************************************************************)
(* int(value) for a str                                                    *)
(***************************************************************************)
DigitSeq == <<"0", "1", "2", "3", "4", "5", "6", "7", "8", "9">>

DigitVal(c) == (CHOOSE k \in 1..Len(DigitSeq) : DigitSeq[k] = c) - 1

RECURSIVE LStrip(_)
LStrip(s) == IF s # <<>> /\ s[1] = " " THEN LStrip(Tail(s)) ELSE s

RECURSIVE RStrip(_)
RStrip(s) == IF s # <<>> /\ s[Len(s)] = " " THEN RStrip(SubSeq(s, 1, Len(s) - 1)) ELSE s

Unsigned(s) == IF s # <<>> /\ s[1] \in {"+", "-"} THEN Tail(s) ELSE s

\* digits, with single underscores allowed between digits
IntBody(s) ==
    /\ s # <<>>
    /\ \A k \in 1..Len(s) : s[k] \in Digit \cup {"_"}
    /\ s[1] \in Digit /\ s[Len(s)] \in Digit
    /\ ~Contains(s, <<"_", "_">>)

\* int(s) raises no ValueError
IntOK(s) == IntBody(Unsigned(RStrip(LStrip(s))))

RECURSIVE Magnitude(_, _)
Magnitude(s, acc) ==
    IF s = <<>> THEN acc
    ELSE IF s[1] = "_" THEN Magnitude(Tail(s), acc)
    ELSE Magnitude(Tail(s), acc * 10 + DigitVal(s[1]))

IntOf(s) ==
    LET t == RStrip(LStrip(s))
        m == Magnitude(Unsigned(t), 0)
    IN  IF t[1] = "-" THEN 0 - m ELSE m

(***************************************************************************)
(* date_to_datetime_date                                                   *)
(***************************************************************************)
\* s.split(sep) for a one-character separator
RECURSIVE Split(_, _, _)
Split(s, sep, cur) ==
    IF s = <<>> THEN <<cur>>
    ELSE IF s[1] = sep THEN <<cur>> \o Split(Tail(s), sep, <<>>)
    ELSE Split(Tail(s), sep, Append(cur, s[1]))

IsLeap(y) == (y % 4 = 0 /\ y % 100 # 0) \/ y % 400 = 0

DaysInMonth(y, m) ==
    IF m = 2 THEN (IF IsLeap(y) THEN 29 ELSE 28)
    ELSE IF m \in {4, 6, 9, 11} THEN 30 ELSE 31

\* the shape YYYY-MM-DD
IsoShape(s) ==
    /\ Len(s) = 10
    /\ \A k \in {1, 2, 3, 4, 6, 7, 9, 10} : s[k] \in Digit
    /\ s[5] = "-" /\ s[8] = "-"

IsoYear(s) == Magnitude(SubSeq(s, 1, 4), 0)

IsoMonth(s) == Magnitude(SubSeq(s, 6, 7), 0)

IsoDay(s) == Magnitude(SubSeq(s, 9, 10), 0)

\* datetime.date.fromisoformat(s) raises no ValueError
fromisoformat_ok(s) ==
    /\ IsoShape(s)
    /\ IsoYear(s) >= 1
    /\ IsoMonth(s) \in 1..12
    /\ IsoDay(s) \in 1..DaysInMonth(IsoYear(s), IsoMonth(s))

\* the rewrite of month/date/year to year-month-date; <<"!">> stands for the
\* ValueError of unpacking a split that has not exactly three parts
IsoOrder(s) ==
    IF Contains(s, <<"/">>)
    THEN LET parts == Split(s, "/", <<>>)
         IN  IF Len(parts) # 3 THEN <<"!">>
             ELSE parts[3] \o <<"-">> \o parts[1] \o <<"-">> \o parts[2]
    ELSE s

DateOK(s) == fromisoformat_ok(IsoOrder(s))

date_to_datetime_date(s) ==
    LET iso == IsoOrder(s) IN DateV(IsoYear(iso), IsoMonth(iso), IsoDay(iso))

(***************************************************************************)
(* UrlCSV.determine_types                                                  *)
(***************************************************************************)
\* the (func, cls) pairs, named by their class
detect_funcs == <<"int", "date", "str">>

\* func(value) raises neither ValueError nor TypeError
Succeeds(func, value) ==
    CASE func = "int" -> IntOK(value)
      [] func = "date" -> DateOK(value)
      [] func = "str" -> TRUE

\* func(value)
Apply(func, value) ==
    CASE func = "int" -> IntV(IntOf(value))
      [] func = "date" -> date_to_datetime_date(value)
      [] func = "str" -> StrV(value)

\* the inner loop over detect_funcs: the first one that succeeds
Detect(value) ==
    LET ok == { k \in 1..Len(detect_funcs) : Succeeds(detect_funcs[k], value) }
    IN  IF ok = {} THEN "none"
        ELSE detect_funcs[CHOOSE k \in ok : \A j \in ok : k <= j]

IndexOf(seq, x) == CHOOSE k \in 1..Len(seq) : seq[k] = x

\* getattr(row, field)
GetAttr(names, row, field) == row[IndexOf(names, field)]

Mismatch == [error |-> TRUE, types |-> <<>>]

\* variant of visit_cell without the check of line 137: the first type stays
visit_cell_lenient(ft, field, value) ==
    IF value = <<>> \/ field \in DOMAIN ft THEN [error |-> FALSE, types |-> ft]
    ELSE [error |-> FALSE,
          types |-> [n \in DOMAIN ft \cup {field} |->
                        IF n = field THEN Detect(value) ELSE ft[n]]]

\* variant of visit_cell that stores every type it sees: the last one stays
visit_cell_overwrite(ft, field, value) ==
    IF value = <<>> THEN [error |-> FALSE, types |-> ft]
    ELSE [error |-> FALSE,
          types |-> [n \in DOMAIN ft \cup {field} |->
                        IF n = field THEN Detect(value) ELSE ft[n]]]

\* the body of the loops of lines 118-140 for one cell, with the dict built
\* so far
visit_cell(ft, field, value) ==
    IF value = <<>> THEN [error |-> FALSE, types |-> ft]
    ELSE IF Detect(value) = "none" THEN Mismatch
    ELSE IF field \in DOMAIN ft
         THEN (IF ft[field] # Detect(value) THEN Mismatch
               ELSE [error |-> FALSE, types |-> ft])
         ELSE [error |-> FALSE,
               types |-> [n \in DOMAIN ft \cup {field} |->
                             IF n = field THEN Detect(value) ELSE ft[n]]]

RECURSIVE scan_cells(_, _, _, _, _)
scan_cells(ft, names, rows, r, f) ==
    IF r > Len(rows) THEN [error |-> FALSE, types |-> ft]
    ELSE IF f > Len(names) THEN scan_cells(ft, names, rows, r + 1, 1)
    ELSE LET step == visit_cell(ft, names[f], GetAttr(names, rows[r], names[f]))
         IN  IF step.error THEN Mismatch
             ELSE scan_cells(step.types, names, rows, r, f + 1)

EmptyDict == [n \in {} |-> "str"]

determine_types(names, rows) ==
    LET scanned == scan_cells(EmptyDict, names, rows, 1, 1)
    IN  IF scanned.error THEN Mismatch
        ELSE [error |-> FALSE,
              types |-> [n \in { names[k] : k \in 1..Len(names) } |->
                            IF n \in DOMAIN scanned.types THEN scanned.types[n]
                            ELSE "str"]]

(***************************************************************************)
(* UrlCSV._make_typed_tuples and UrlCSV._make_typed_dict                   *)
(***************************************************************************)
\* variant of typed_cell without the branch of lines 160-161
typed_cell_blank_none(ftype, value) ==
    IF value # <<>> THEN Apply(ftype, value) ELSE NoneV

typed_cell(ftype, value) ==
    IF value # <<>> THEN Apply(ftype, value)
    ELSE IF ftype = "int" THEN IntV(0)
    ELSE NoneV

make_typed_tuples(names, rows, ft) ==
    [r \in 1..Len(rows) |->
        [k \in 1..Len(names) |-> typed_cell(ft[names[k]], GetAttr(names, rows[r], names[k]))]]

\* no func(value) of line 159 raises ValueError
typed_ok(names, rows, ft) ==
    \A r \in 1..Len(rows) : \A k \in 1..Len(names) :
        LET value == GetAttr(names, rows[r], names[k])
        IN  value # <<>> => Succeeds(ft[names[k]], value)

make_typed_dict(names, typed_data) ==
    [r \in 1..Len(typed_data) |->
        [n \in { names[k] : k \in 1..Len(names) } |-> GetAttr(names, typed_data[r], n)]]

(***************************************************************************)
(* UrlCSV.__init__, from the cleaned field names and the rows of the       *)
(* reader on.                                                              *)
(***************************************************************************)
NoDuplicates(seq) == \A j, k \in 1..Len(seq) : seq[j] = seq[k] => j = k

\* namedtuple(name, fields) raises no ValueError
namedtuple_ok(names) ==
    /\ NoDuplicates(names)
    /\ \A k \in 1..Len(names) :
          names[k] # <<>> /\ names[k][1] \notin Digit \cup {"_"}

(***************************************************************************)
(* union_fields                                                            *)
(***************************************************************************)
\* variant of longest_of with >= for >: the last of the longest lists
RECURSIVE longest_of_last(_, _)
longest_of_last(csv_args, longest) ==
    IF csv_args = <<>> THEN longest
    ELSE IF Len(Head(csv_args).field_names) >= Len(longest)
         THEN longest_of_last(Tail(csv_args), Head(csv_args).field_names)
         ELSE longest_of_last(Tail(csv_args), longest)

\* first loop (lines 195-198): the field list of the first argument that is
\* longer than every one before it; longest is the list kept so far
RECURSIVE longest_of(_, _)
longest_of(csv_args, longest) ==
    IF csv_args = <<>> THEN longest
    ELSE IF Len(Head(csv_args).field_names) > Len(longest)
         THEN longest_of(Tail(csv_args), Head(csv_args).field_names)
         ELSE longest_of(Tail(csv_args), longest)

\* list.insert(index, x): an index past the end appends
Insert(seq, index, x) ==
    LET at == IF index > Len(seq) THEN Len(seq) ELSE index
    IN  SubSeq(seq, 1, at) \o <<x>> \o SubSeq(seq, at + 1, Len(seq))

InList(seq, x) == \E k \in 1..Len(seq) : seq[k] = x

\* inner loop (lines 203-206) from the 0-based index on
RECURSIVE splice(_, _, _, _)
splice(longest, names, index, offset) ==
    IF index >= Len(names) THEN longest
    ELSE IF ~InList(longest, names[index + 1])
         THEN splice(Insert(longest, index + offset, names[index + 1]),
                     names, index + 1, offset + 1)
         ELSE splice(longest, names, index + 1, offset)

\* variant of splice_all that skips an argument as long as the list kept
RECURSIVE splice_all_same_length(_, _)
splice_all_same_length(csv_args, longest) ==
    IF csv_args = <<>> THEN longest
    ELSE IF Len(Head(csv_args).field_names) = Len(longest)
         THEN splice_all_same_length(Tail(csv_args), longest)
         ELSE splice_all_same_length(Tail(csv_args),
                         splice(longest, Head(csv_args).field_names, 0, 0))

\* second loop (lines 199-206)
RECURSIVE splice_all(_, _)
splice_all(csv_args, longest) ==
    IF csv_args = <<>> THEN longest
    ELSE IF Head(csv_args).field_names = longest
         THEN splice_all(Tail(csv_args), longest)
         ELSE splice_all(Tail(csv_args),
                         splice(longest, Head(csv_args).field_names, 0, 0))

union_fields(csv_args) == splice_all(csv_args, longest_of(csv_args, <<>>))

(***************************************************************************)
(* merge_typed_dicts                                                       *)
(***************************************************************************)
\* variant of default_value with the two defaults exchanged
default_value_swapped(field) ==
    IF Contains(field, <<"f", "l", "a", "g">>) THEN IntV(0) ELSE NoneV

\* line 226
default_value(field) ==
    IF Contains(field, <<"f", "l", "a", "g">>) THEN NoneV ELSE IntV(0)

ToSet(seq) == { seq[k] : k \in 1..Len(seq) }

\* lines 224-227: row_dict.get(field, default) for every field of field_list
merge_row(row_dict, field_list) ==
    [f \in ToSet(field_list) |->
        IF f \in DOMAIN row_dict THEN row_dict[f] ELSE default_value(f)]

\* lines 223-228 for one argument
merge_table(csv_arg, field_list) ==
    [r \in 1..Len(csv_arg.typed_dict) |-> merge_row(csv_arg.typed_dict[r], field_list)]

\* variant of merge_args that puts the rows of later arguments first
RECURSIVE merge_args_reversed(_, _)
merge_args_reversed(csv_args, field_list) ==
    IF csv_args = <<>> THEN <<>>
    ELSE merge_args_reversed(Tail(csv_args), field_list)
            \o merge_table(Head(csv_args), field_list)

\* the loop of line 222
RECURSIVE merge_args(_, _)
merge_args(csv_args, field_list) ==
    IF csv_args = <<>> THEN <<>>
    ELSE merge_table(Head(csv_args), field_list) \o merge_args(Tail(csv_args), field_list)

merge_typed_dicts(csv_args) == merge_args(csv_args, union_fields(csv_args))

(***************************************************************************)
(* pivot_typed_dict                                                        *)
(***************************************************************************)
KeyError == [error |-> TRUE, columns |-> <<>>]

\* variant of pivot_row that puts the value at the front of the column
pivot_row_prepend(columns, row) ==
    IF ~(DOMAIN row \subseteq DOMAIN columns) THEN KeyError
    ELSE [error |-> FALSE,
          columns |-> [f \in DOMAIN columns |->
                          IF f \in DOMAIN row THEN <<row[f]>> \o columns[f]
                          ELSE columns[f]]]

\* lines 258-259 for one row: result[field] of a field that is no key of
\* result raises KeyError
pivot_row(columns, row) ==
    IF ~(DOMAIN row \subseteq DOMAIN columns) THEN KeyError
    ELSE [error |-> FALSE,
          columns |-> [f \in DOMAIN columns |->
                          IF f \in DOMAIN row THEN Append(columns[f], row[f])
                          ELSE columns[f]]]

\* the loop of line 257
RECURSIVE pivot_rows(_, _)
pivot_rows(columns, rows) ==
    IF rows = <<>> THEN [error |-> FALSE, columns |-> columns]
    ELSE LET step == pivot_row(columns, Head(rows))
         IN  IF step.error THEN KeyError ELSE pivot_rows(step.columns, Tail(rows))

\* for a non-empty td; td[0] of an empty td raises IndexError
pivot_typed_dict(rows) == pivot_rows([f \in DOMAIN rows[1] |-> <<>>], rows)

(***************************************************************************)
(* Table construction: the inputs are a field list and up to MaxRows raw   *)
(* rows whose cells are drawn from RawValues.                              *)
(***************************************************************************)
A == <<"a">>

B == <<"b">>

BuildFieldLists == { <<A>>, <<A, B>>, <<A, A>> }

\* "", "5", "-12", "abc", "1.5", "2020-01-01", "03/04/2020"
RawValues ==
    { <<>>,
      <<"5">>,
      <<"-", "1", "2">>,
      <<"a", "b", "c">>,
      <<"1", ".", "5">>,
      <<"2", "0", "2", "0", "-", "0", "1", "-", "0", "1">>,
      <<"0", "3", "/", "0", "4", "/", "2", "0", "2", "0">> }

Init ==
    /\ pc = "start"
    /\ field_names \in BuildFieldLists
    /\ data \in SeqsUpTo([1..Len(field_names) -> RawValues], MaxRows)
    /\ field_types = <<>> /\ typed_dict = <<>>
    /\ headings = <<>> /\ fields = <<>>
    /\ args = <<>> /\ union_result = <<>> /\ csv_result = <<>>
    /\ td = <<>> /\ result = <<>>

\* UrlCSV.__init__ from line 69 on: a ValueError of namedtuple or of a
\* conversion, or the RuntimeError of determine_types, leaves no object behind
UrlCSV_init ==
    /\ pc = "start"
    /\ IF ~namedtuple_ok(field_names)
       THEN pc' = "ValueError" /\ UNCHANGED <<field_types, typed_dict>>
       ELSE LET dt == determine_types(field_names, data)
            IN  IF dt.error
                THEN pc' = "RuntimeError" /\ UNCHANGED <<field_types, typed_dict>>
                ELSE IF ~typed_ok(field_names, data, dt.types)
                THEN pc' = "ValueError" /\ UNCHANGED <<field_types, typed_dict>>
                ELSE /\ pc' = "done"
                     /\ field_types' = dt.types
                     /\ typed_dict' =
                            make_typed_dict(field_names,
                                make_typed_tuples(field_names, data, dt.types))
    /\ UNCHANGED <<field_names, data, headings, fields,
                   args, union_result, csv_result, td, result>>

Next == UrlCSV_init

Spec == Init /\ [][Next]_vars

\* the class of the first of int, date, str that accepts the value
FirstParser(v) == IF IntOK(v) THEN "int" ELSE IF DateOK(v) THEN "date" ELSE "str"

NonBlankRows(k) == { r \in 1..Len(data) : data[r][k] # <<>> }

FirstNonBlank(k) == data[CHOOSE r \in NonBlankRows(k) : \A q \in NonBlankRows(k) : r <= q][k]

\* the constructor has run on a field list that namedtuple accepts
Built == pc # "start" /\ NoDuplicates(field_names)

\* some later non-blank value of field k resolves to another type than the first
Conflict(k) ==
    \E r \in NonBlankRows(k) : FirstParser(data[r][k]) # FirstParser(FirstNonBlank(k))

\* field k mixes integer strings with strings that are neither integer nor date
IntTextMix(k) ==
    /\ \E r \in NonBlankRows(k) : IntOK(data[r][k])
    /\ \E r \in NonBlankRows(k) : ~IntOK(data[r][k]) /\ ~DateOK(data[r][k])

\* C3 (as stated): a field that mixes integer strings with strings that are
\* neither integer nor date is inferred as Text and the build succeeds.
C3_MixInfersText ==
    Built =>
        \A k \in 1..Len(field_names) :
            IntTextMix(k) => pc = "done" /\ field_types[field_names[k]] = "str"

\* C3 (amended): a field that mixes integer strings with strings that are
\* neither integer nor date, in either row order, makes the build fail with
\* the type-conflict error.
C3_MixIsConflict ==
    Built =>
        \A k \in 1..Len(field_names) : IntTextMix(k) => pc = "RuntimeError"

C3_Witness ==
    /\ pc = "RuntimeError"
    /\ \E k \in 1..Len(field_names) :
          /\ IntTextMix(k)
          /\ ~IntOK(FirstNonBlank(k))

\* C4: a field's type is fixed by its first non-blank value (first succeeding
\* parser among int, date, str); a later non-blank value of another type fails
\* the whole build with the type-conflict error and leaves no field_types and
\* no typed rows; otherwise the build succeeds with the type of the first
\* non-blank value.
C4_FirstValueFixesType ==
    Built =>
        /\ pc \in {"done", "RuntimeError"}
        /\ pc = "RuntimeError" <=> \E k \in 1..Len(field_names) : Conflict(k)
        /\ pc = "RuntimeError" => field_types = <<>> /\ typed_dict = <<>>
        /\ pc = "done" =>
              /\ Len(typed_dict) = Len(data)
              /\ \A k \in 1..Len(field_names) :
                    NonBlankRows(k) # {} =>
                        field_types[field_names[k]] = FirstParser(FirstNonBlank(k))

C4_Witness ==
    /\ pc = "RuntimeError"
    /\ \E k \in 1..Len(field_names) :
          /\ NonBlankRows(k) # {}
          /\ FirstParser(FirstNonBlank(k)) = "int"
          /\ \E r \in NonBlankRows(k) : FirstParser(data[r][k]) = "date"
    /\ \E k \in 1..Len(field_names) : NonBlankRows(k) # {} /\ ~Conflict(k)

\* C9: in the typed rows, a blank cell of an int field is 0, a blank cell of a
\* date or str field is None, no typed cell is the empty string, and a field
\* without any non-blank value has type str.
C9_BlankCells ==
    pc = "done" =>
        \A k \in 1..Len(field_names) :
            LET f == field_names[k] IN
            /\ NonBlankRows(k) = {} => field_types[f] = "str"
            /\ \A r \in 1..Len(data) :
                  /\ typed_dict[r][f] # StrV(<<>>)
                  /\ data[r][k] = <<>> /\ field_types[f] = "int" => typed_dict[r][f] = IntV(0)
                  /\ data[r][k] = <<>> /\ field_types[f] # "int" => typed_dict[r][f] = NoneV

C9_Witness ==
    /\ pc = "done"
    /\ \E k \in 1..Len(field_names) : \E r \in 1..Len(data) :
          data[r][k] = <<>> /\ field_types[field_names[k]] = "int"
    /\ \E k \in 1..Len(field_names) : \E r \in 1..Len(data) :
          data[r][k] = <<>> /\ field_types[field_names[k]] = "date"

(***************************************************************************)
(* Raw headings: up to MaxHeadTokens pieces, each a separator character,   *)
(* a letter, or one of the cause-of-death codes the regexes delete.        *)
(***************************************************************************)
HeadTokens ==
    { <<"(">>, <<")">>, <<",">>, <<"-">>, <<" ">>, <<"_">>, <<"x">>,
      <<"U", "0", "7", "1">>, <<"J", "0", "9", "-", "J", "1", "8">> }

RECURSIVE Flatten(_)
Flatten(toks) == IF toks = <<>> THEN <<>> ELSE Head(toks) \o Flatten(Tail(toks))

InitClean ==
    /\ pc = "start"
    /\ headings \in { <<Flatten(toks)>> : toks \in SeqsUpTo(HeadTokens, MaxHeadTokens) }
    /\ fields = <<>>
    /\ field_names = <<>> /\ data = <<>> /\ field_types = <<>> /\ typed_dict = <<>>
    /\ args = <<>> /\ union_result = <<>> /\ csv_result = <<>>
    /\ td = <<>> /\ result = <<>>

CleanHeadings ==
    /\ pc = "start"
    /\ fields' = clean_headings(headings)
    /\ pc' = "done"
    /\ UNCHANGED <<headings, field_names, data, field_types, typed_dict,
                   args, union_result, csv_result, td, result>>

NextClean == CleanHeadings

SpecClean == InitClean /\ [][NextClean]_vars

\* C6: the identifier produced by _clean_headings contains none of the
\* characters ( ) , - or space, has no two consecutive underscores and does
\* not end with an underscore.
NoSeparator(s) == \A i \in 1..Len(s) : s[i] \notin {"(", ")", ",", "-", " "}

NoDoubleUnderscore(s) == ~Contains(s, <<"_", "_">>)

NoTrailingUnderscore(s) == s = <<>> \/ s[Len(s)] # "_"

C6_CleanIdentifier ==
    pc = "done" =>
        \A i \in 1..Len(fields) :
            /\ NoSeparator(fields[i])
            /\ NoDoubleUnderscore(fields[i])
            /\ NoTrailingUnderscore(fields[i])

(***************************************************************************)
(* union_fields: the arguments are up to MaxUnionArgs tables built from    *)
(* a header line alone, with up to MaxUnionFields distinct fields each.    *)
(***************************************************************************)
C == <<"c">>

UnionNames == {A, B, C}

\* the object UrlCSV.__init__ leaves for a field list and rows it accepts
UrlCSV(names, rows) ==
    [field_names |-> names,
     typed_dict |->
        make_typed_dict(names,
            make_typed_tuples(names, rows, determine_types(names, rows).types))]

UnionTables ==
    { UrlCSV(names, <<>>) :
        names \in { l \in SeqsUpTo(UnionNames, MaxUnionFields) : NoDuplicates(l) } }

InitUnion ==
    /\ pc = "start"
    /\ args \in SeqsUpTo(UnionTables, MaxUnionArgs)
    /\ union_result = <<>> /\ csv_result = <<>>
    /\ headings = <<>> /\ fields = <<>>
    /\ field_names = <<>> /\ data = <<>> /\ field_types = <<>> /\ typed_dict = <<>>
    /\ td = <<>> /\ result = <<>>

UnionFields ==
    /\ pc = "start"
    /\ union_result' = union_fields(args)
    /\ pc' = "done"
    /\ UNCHANGED <<args, csv_result, headings, fields, field_names, data,
                   field_types, typed_dict, td, result>>

NextUnion == UnionFields

SpecUnion == InitUnion /\ [][NextUnion]_vars

Has(t, f) == InList(args[t].field_names, f)

Before(seq, f, g) == IndexOf(seq, f) < IndexOf(seq, g)

\* C2 (as stated): for every argument T and fields f, g of T that also occur
\* in another argument, f before g in T implies f before g in the result.
C2_SharedOrderKept ==
    pc = "done" =>
        \A t \in 1..Len(args) : \A f, g \in ToSet(args[t].field_names) :
            ( /\ \E u \in 1..Len(args) : u # t /\ Has(u, f) /\ Has(u, g)
              /\ Before(args[t].field_names, f, g) )
            => Before(union_result, f, g)

\* the argument union_fields starts from: the first one with the most fields
BaseArg == CHOOSE t \in 1..Len(args) :
               /\ \A u \in 1..Len(args) :
                     Len(args[u].field_names) <= Len(args[t].field_names)
               /\ \A u \in 1..(t - 1) :
                     Len(args[u].field_names) < Len(args[t].field_names)

\* C2 (amended): the result keeps the relative order of the fields of the
\* base table, the first argument with the most fields.
C2_BaseOrderKept ==
    pc = "done" /\ args # <<>> =>
        \A f, g \in ToSet(args[BaseArg].field_names) :
            Before(args[BaseArg].field_names, f, g) => Before(union_result, f, g)

C2_Witness ==
    /\ pc = "done"
    /\ Len(args) >= 2
    /\ Len(args[BaseArg].field_names) >= 2
    /\ BaseArg # 1
    /\ \E u \in 1..Len(args) :
          /\ u # BaseArg
          /\ Len(args[u].field_names) = Len(args[BaseArg].field_names)
          /\ \E f \in ToSet(args[u].field_names) : ~Has(BaseArg, f)
          /\ \E f \in ToSet(args[u].field_names) : Has(BaseArg, f)

AllNames == UNION { ToSet(args[t].field_names) : t \in 1..Len(args) }

\* C7: the result of union_fields holds every field name of every argument,
\* each exactly once, and no other name.
C7_ExactUnion ==
    pc = "done" => ToSet(union_result) = AllNames /\ NoDuplicates(union_result)

\* two non-base tables introduce the same new field
C7_Witness ==
    /\ pc = "done"
    /\ Len(args) >= 3
    /\ \E t, u \in 1..Len(args) : \E f \in UnionNames :
          /\ t # u /\ t # BaseArg /\ u # BaseArg
          /\ Has(t, f) /\ Has(u, f) /\ ~Has(BaseArg, f)
          /\ args[t].field_names # args[u].field_names

(***************************************************************************)
(* merge_typed_dicts: the arguments are up to MaxMergeArgs tables, each    *)
(* built from one of the field lists below and up to MaxMergeRows rows     *)
(* that are blank or "5" throughout.                                       *)
(***************************************************************************)
XFLAG == <<"x", "f", "l", "a", "g">>

CAPFLAG == <<"F", "l", "a", "g">>

MergeFieldLists == { <<A>>, <<XFLAG>>, <<A, XFLAG>>, <<CAPFLAG, A>> }

MergeRawRows(names) == { [k \in 1..Len(names) |-> v] : v \in { <<>>, <<"5">> } }

MergeTables ==
    UNION { { UrlCSV(names, rows) : rows \in SeqsUpTo(MergeRawRows(names), MaxMergeRows) } :
            names \in MergeFieldLists }

InitMerge ==
    /\ pc = "start"
    /\ args \in SeqsUpTo(MergeTables, MaxMergeArgs)
    /\ union_result = <<>> /\ csv_result = <<>>
    /\ headings = <<>> /\ fields = <<>>
    /\ field_names = <<>> /\ data = <<>> /\ field_types = <<>> /\ typed_dict = <<>>
    /\ td = <<>> /\ result = <<>>

MergeTypedDicts ==
    /\ pc = "start"
    /\ csv_result' = merge_typed_dicts(args)
    /\ pc' = "done"
    /\ UNCHANGED <<args, union_result, headings, fields, field_names, data,
                   field_types, typed_dict, td, result>>

NextMerge == MergeTypedDicts

SpecMerge == InitMerge /\ [][NextMerge]_vars

RECURSIVE RowsBefore(_)
RowsBefore(t) == IF t <= 1 THEN 0 ELSE RowsBefore(t - 1) + Len(args[t - 1].typed_dict)

\* the merged row that comes from row r of argument t
MergedRow(t, r) == csv_result[RowsBefore(t) + r]

HasFlag(f) == Contains(f, <<"f", "l", "a", "g">>)

\* C1 (as stated): a union field absent from a table is 0 in that table's
\* merged rows if its name contains "flag", None otherwise.
C1_FlagDefaultsZero ==
    pc = "done" =>
        \A t \in 1..Len(args) : \A r \in 1..Len(args[t].typed_dict) :
            \A f \in AllNames \ ToSet(args[t].field_names) :
                MergedRow(t, r)[f] = IF HasFlag(f) THEN IntV(0) ELSE NoneV

\* C1 (amended): a union field absent from a table is None in that table's
\* merged rows if its name contains "flag", 0 otherwise.
C1_FlagDefaultsNone ==
    pc = "done" =>
        \A t \in 1..Len(args) : \A r \in 1..Len(args[t].typed_dict) :
            \A f \in AllNames \ ToSet(args[t].field_names) :
                MergedRow(t, r)[f] = IF HasFlag(f) THEN NoneV ELSE IntV(0)

C1_Witness ==
    /\ pc = "done"
    /\ \E t \in 1..Len(args) : \E f \in AllNames \ ToSet(args[t].field_names) :
          HasFlag(f) /\ args[t].typed_dict # <<>>
    /\ \E t \in 1..Len(args) : \E f \in AllNames \ ToSet(args[t].field_names) :
          f = CAPFLAG /\ args[t].typed_dict # <<>>
    /\ \E t \in 1..Len(args) : \E f \in AllNames \ ToSet(args[t].field_names) :
          f = A /\ args[t].typed_dict # <<>>

\* C8: merge_typed_dicts returns one row per input row, the rows of argument
\* 1 in their order, then those of argument 2, and so on; the keys of every
\* merged row are the union of the field names, and a field the source table
\* has keeps the source row's value.
C8_RowsConcatenated ==
    pc = "done" =>
        /\ Len(csv_result) = RowsBefore(Len(args) + 1)
        /\ \A t \in 1..Len(args) : \A r \in 1..Len(args[t].typed_dict) :
              /\ DOMAIN MergedRow(t, r) = AllNames
              /\ \A f \in ToSet(args[t].field_names) :
                    MergedRow(t, r)[f] = args[t].typed_dict[r][f]

C8_Witness ==
    /\ pc = "done"
    /\ Len(args) = 2
    /\ args[1].field_names # args[2].field_names
    /\ \A t \in 1..2 :
          /\ Len(args[t].typed_dict) = 2
          /\ args[t].typed_dict[1] # args[t].typed_dict[2]

(***************************************************************************)
(* pivot_typed_dict: the argument is up to MaxPivotRows dicts over the     *)
(* keys "a" and "b".                                                       *)
(***************************************************************************)
PivotRowDicts == UNION { [keys -> {IntV(1), NoneV}] : keys \in SUBSET {A, B} }

InitPivot ==
    /\ pc = "start"
    /\ td \in SeqsUpTo(PivotRowDicts, MaxPivotRows)
    /\ result = <<>>
    /\ headings = <<>> /\ fields = <<>>
    /\ field_names = <<>> /\ data = <<>> /\ field_types = <<>> /\ typed_dict = <<>>
    /\ args = <<>> /\ union_result = <<>> /\ csv_result = <<>>

PivotTypedDict ==
    /\ pc = "start"
    /\ IF td = <<>>
       THEN pc' = "IndexError" /\ UNCHANGED result
       ELSE LET pivoted == pivot_typed_dict(td)
            IN  IF pivoted.error
                THEN pc' = "KeyError" /\ UNCHANGED result
                ELSE pc' = "done" /\ result' = pivoted.columns
    /\ UNCHANGED <<td, headings, fields, field_names, data, field_types,
                   typed_dict, args, union_result, csv_result>>

NextPivot == PivotTypedDict

SpecPivot == InitPivot /\ [][NextPivot]_vars

\* C5: pivot_typed_dict raises an error whenever some row lacks a field that
\* the first row has.
C5_MissingFieldFails ==
    pc # "start" /\ td # <<>> =>
        ( (\E r \in 1..Len(td) : ~(DOMAIN td[1] \subseteq DOMAIN td[r]))
          => pc \in {"KeyError", "IndexError"} )

\* C10: for a non-empty td whose rows share one field set, the result has
\* exactly these fields as keys, every column is as long as td, and column f
\* at index i is row i's value of f.
C10_PivotIsTranspose ==
    ( /\ pc # "start" /\ td # <<>>
      /\ \A r \in 1..Len(td) : DOMAIN td[r] = DOMAIN td[1] )
    => /\ pc = "done"
       /\ DOMAIN result = DOMAIN td[1]
       /\ \A f \in DOMAIN td[1] :
             /\ Len(result[f]) = Len(td)
             /\ \A r \in 1..Len(td) : result[f][r] = td[r][f]

C10_Witness ==
    /\ pc = "done"
    /\ Len(td) >= 2
    /\ \A r \in 1..Len(td) : DOMAIN td[r] = {A, B}
    /\ \E f \in {A, B} : td[1][f] # td[2][f]

====
